---- MODULE Spec2Model ----
(***************************************************************************)
(* Model of dtr-audit: the three-stage permission aggregation of Auditor   *)
(* (auditor.go), the merge rule User.AddRepo (types.go), main, and the     *)
(* HTTP layer of the fetchers: get, do and retry (util.go).                *)
(*                                                                         *)
(* a.Users is a map of POINTERS to User records, so the model keeps a heap *)
(* of records and a map from user name to heap cell.  A cell is named      *)
(* after the first key that was stored for it (every key of a.Users is     *)
(* assigned exactly once, when it is absent).                              *)
(***************************************************************************)
EXTENDS Integers, Sequences, FiniteSets, TLC

VARIABLES
    pc,           \* position of the process: main / Run / inside a stage
    chain,        \* Run's pipeline of stage functions
    stage,        \* index of the stage function Run is about to call
    runErr,       \* error returned by Run ("nil" when none)
    exitCode,     \* process exit status, -1 while running
    report,       \* TRUE once main has printed the JSON report
    loopVar,      \* range-variable semantics of the build
    Users,        \* a.Users: user name -> heap cell
    heap,         \* heap cell -> User record
    Orgs,         \* a.Orgs: org name -> Org record
    publicRepos,  \* a.publicRepos
    repos, ri,    \* auditAllRepos: fetched listing and loop index
    visited,      \* auditOrgs: orgs the range over a.Orgs has produced
    curOrg,       \* auditOrgs: orgName of the current iteration
    teams, ti,    \* auditOrgs: teams of curOrg and loop index
    trepos, tri,  \* auditTeam: the team's repositories and loop index
    tusers, ui,   \* auditTeam: the team's members and loop index
    ucell,        \* auditTeam: heap cell of the range variable u, if stored
    accts, ai,    \* auditRemainingAccounts: listing and loop index
    served,       \* what the data source answered (kept for a repeated stage)
    hist,         \* history: offers, names seen, fetches, stage progress
    http          \* the HTTP exchange of the fetch in progress, if followed

vars == <<pc, chain, stage, runErr, exitCode, report, loopVar, Users, heap,
          Orgs, publicRepos, repos, ri, visited, curOrg, teams, ti, accts,
          ai, served, hist, trepos, tri, tusers, ui, ucell, http>>

----------------------------------------------------------------------------
(* Universe of names the data source may mention, and bounds. *)

UserNames == {"alice", "bob"}
OrgNames  == {"acme", "beta"}
TeamNames == {"platform", "admins"}
RepoNames == {"alice/proj", "acme/infra", "beta/site"}

MaxRepos     == 2   \* repositories in the listing
MaxTeams     == 2   \* teams the data source lists during one pass of auditOrgs
MaxTeamRepos == 1   \* repository grants of one team
MaxMembers   == 2   \* members of one team
MaxAccounts  == 1   \* accounts in the account listing

\* Access: Read < Write < Admin
Read  == 1
Write == 2
Admin == 3
Levels == {Read, Write, Admin}
\* level reported for a repository that is not a key of a Repos map
NoEntry == 0

AccountTypeOrg  == "organization"
AccountTypeUser == "user"
VisibilityPublic  == "public"
VisibilityPrivate == "private"

\* namespace of each repository of the universe
RepoOwner(r) ==
    CASE r = "alice/proj" -> [AccountName |-> "alice", AccountType |-> AccountTypeUser]
      [] r = "acme/infra" -> [AccountName |-> "acme", AccountType |-> AccountTypeOrg]
      [] OTHER            -> [AccountName |-> "beta", AccountType |-> AccountTypeOrg]

\* organization administrators known to the platform (never fetched)
OrgAdmins == {<<"acme", "bob">>}

None == "none"

\* sequences without repetition of length <= n over set S
RECURSIVE SeqsUpTo(_, _)
SeqsUpTo(S, n) ==
    IF n = 0 THEN {<<>>}
    ELSE LET shorter == SeqsUpTo(S, n - 1)
         IN shorter \cup
            {Append(p[1], p[2]) : p \in
                {q \in shorter \X S :
                    /\ Len(q[1]) = n - 1
                    /\ \A i \in 1..Len(q[1]) : q[1][i] # q[2]}}

\* the sequences of s whose elements have pairwise different names
DistinctNames(T) ==
    {s \in T : \A i, j \in 1..Len(s) : i # j => s[i].Name # s[j].Name}

\* what fetchAllRepos can decode
RepoFacts ==
    {[Name |-> r, Visibility |-> v,
      AccountName |-> RepoOwner(r).AccountName,
      AccountType |-> RepoOwner(r).AccountType] :
        r \in RepoNames, v \in {VisibilityPublic, VisibilityPrivate}}
    \ {f \in [Name : {"acme/infra", "beta/site"},
              Visibility : {VisibilityPublic, VisibilityPrivate},
              AccountName : OrgNames, AccountType : {AccountTypeOrg}] :
          (f.Name = "acme/infra") = (f.Visibility = VisibilityPublic)}
ReposResponses == DistinctNames(SeqsUpTo(RepoFacts, MaxRepos))

\* what fetchTeamsForOrg can decode
TeamsResponses == SeqsUpTo(TeamNames, MaxTeams)
TeamsResponsesUpTo(n) == {t \in TeamsResponses : Len(t) <= n}

\* what fetchReposForTeam can decode: TeamRepo{Repo, Level}
TeamRepoFacts == {[Name |-> r, Level |-> l] :
                    r \in {"alice/proj", "acme/infra"}, l \in Levels}
TeamReposResponses == DistinctNames(SeqsUpTo(TeamRepoFacts, MaxTeamRepos))

\* what fetchMembersForTeam can decode: TeamMember{User}
MembersResponses == SeqsUpTo(UserNames, MaxMembers)

\* what fetchAccounts can decode
AccountFacts ==
    {[ID |-> n, Name |-> n, IsOrg |-> FALSE, IsAdmin |-> b] :
        n \in UserNames, b \in BOOLEAN}
    \cup {[ID |-> n, Name |-> n, IsOrg |-> TRUE, IsAdmin |-> FALSE] :
        n \in OrgNames}
AccountsResponses == DistinctNames(SeqsUpTo(AccountFacts, MaxAccounts))

EmptyRepos == [r \in RepoNames |-> NoEntry]

----------------------------------------------------------------------------
(* types.go *)

\* AddRepo without the comparison of levels: the last grant wins
AddRepoLastWins(m, r, lvl) == [m EXCEPT ![r] = lvl]

\* User.AddRepo on a Repos map m: keep the existing entry when its level is
\* greater, otherwise store r
AddRepo(m, r, lvl) ==
    IF m[r] # NoEntry /\ m[r] > lvl THEN m ELSE [m EXCEPT ![r] = lvl]

\* level user name n holds on repository r in the registry
Level(n, r) ==
    IF n \in DOMAIN Users /\ ~heap[Users[n]].ReposNil
    THEN heap[Users[n]].Repos[r] ELSE NoEntry

----------------------------------------------------------------------------
(* History bookkeeping shared by the actions. *)

NoErr == "nil"

\* nothing has happened yet
NoHistory ==
    [offers |-> [n \in UserNames |-> [r \in RepoNames |-> {}]],
     appeared |-> {}, owned |-> {}, orgRepos |-> {}, public |-> {},
     started |-> {}, lateFetch |-> FALSE,
     reposListed |-> FALSE, reposPending |-> 0,
     teamsListed |-> 0, teamsPending |-> 0,
     passes |-> 0, snap |-> <<>>]

\* a fetch was issued by stage function f
Fetched(h, f) ==
    [h EXCEPT !.started = @ \cup {f},
              !.lateFetch = @ \/ runErr # NoErr \/ pc \in {"main", "exit"}]

\* level l was offered to account n for repository r
Offered(off, n, r, l) == [off EXCEPT ![n][r] = @ \cup {l}]

\* the data source answers a repeated request as it did the first time; the
\* answers are only kept when Run's chain calls auditOrgs more than once
Replays == Cardinality({i \in 1..Len(chain) : chain[i] = "auditOrgs"}) > 1

Answer(cache, key, responses) ==
    IF key \in DOMAIN cache THEN {cache[key]} ELSE responses

Keep(cache, key, resp) ==
    IF Replays /\ key \notin DOMAIN cache THEN cache @@ (key :> resp) ELSE cache

----------------------------------------------------------------------------
(* The HTTP layer under a fetch: get, do and retry.  The stage actions below
   take a fetch as one step that yields an error or a decoded listing; http
   is "idle" then.  The fetch actions further down follow one fetch request
   by request, and the stage action that called it takes its result. *)

Fetchers == {"fetchAllRepos", "fetchTeamsForOrg", "fetchReposForTeam",
             "fetchMembersForTeam", "fetchAccounts"}

\* no fetch is followed
Idle == [at |-> "idle", fn |-> None, order |-> None, i |-> 0,
         resp |-> 0, err |-> NoErr, outcomes |-> <<>>]

\* util.go line 8: the attempts retry makes
RetryAttempts == 3

\* part_001 line 90: the statuses do accepts
StatusOKMin == 200
StatusOKMax == 299

\* part_001 line 85: client.Do returned an error and a nil response
NoResponse == 0

\* statuses the registry may answer with
Statuses == {200, 299, 300, 404, 500}

\* retry running its loop body once more than the budget
RetryLoopOneMore(i) == i <= RetryAttempts

\* util.go line 8: the loop condition i < 3
RetryLoop(i) == i < RetryAttempts

\* do rejecting server-class statuses only
BadStatusServerOnly(code) == code >= 500

\* part_001 line 90: resp.StatusCode < 200 || resp.StatusCode > 299
BadStatus(code) == code < StatusOKMin \/ code > StatusOKMax

\* part_001 lines 83-100: the closure f of do, answered with outcome o
F(h, o) ==
    [h EXCEPT !.resp = o,
              !.err = IF o = NoResponse THEN "transport"
                      ELSE IF BadStatus(o) THEN "status" ELSE NoErr,
              !.outcomes = Append(@, o)]

\* part_001 line 102, `return resp, retry(f)`: the language leaves open
\* whether the variable resp is read before or after the call of retry
Orders == {"callFirst", "operandFirst"}

RespReturned(h) == IF h.order = "operandFirst" THEN NoResponse ELSE h.resp

\* the fetcher asking again after a body that does not decode
DecodeFailsAsksAgain(h) == [h EXCEPT !.at = "get", !.err = "decode"]

\* part_001 lines 38-40 (and 60-62, 113-115, 133-135, 150-152): the decode
\* error is returned
DecodeFails(h) == [h EXCEPT !.at = "failed", !.err = "decode"]

\* the calling stage function has taken the result of the fetch
Returned(h) == [h EXCEPT !.at = IF @ = "idle" THEN @ ELSE "returned"]

----------------------------------------------------------------------------
(* auditor.go: Run *)

\* Run's loop recording the error and going on to the next stage function
StageReturnsAndGoesOn(err) ==
    /\ pc' = "Run" /\ stage' = stage + 1
    /\ runErr' = IF err # NoErr THEN err ELSE runErr

\* Run, lines 76-80: a stage function returned err
StageReturns(err) ==
    IF err # NoErr
    THEN pc' = "main" /\ runErr' = err /\ stage' = stage
    ELSE pc' = "Run" /\ runErr' = runErr /\ stage' = stage + 1

\* Run, line 82: the chain is exhausted
RunReturnsNil ==
    /\ pc = "Run" /\ stage > Len(chain)
    /\ pc' = "main" /\ runErr' = NoErr
    /\ UNCHANGED <<chain, stage, exitCode, report, loopVar, Users, heap, Orgs,
                   publicRepos, repos, ri, visited, curOrg, teams, ti, accts,
                   ai, served, hist>>
    /\ UNCHANGED <<trepos, tri, tusers, ui, ucell>>
    /\ UNCHANGED http

\* a loop that stops one element early
LoopDoneEarly(i, seq) == i >= Len(seq)

\* the condition that ends a `for i := range seq` loop
LoopDone(i, seq) == i > Len(seq)

----------------------------------------------------------------------------
(* auditor.go: auditAllRepos *)

\* auditAllRepos walking whatever listing came back before looking at err
CallAuditAllReposPartial ==
    /\ pc = "Run" /\ stage <= Len(chain) /\ chain[stage] = "auditAllRepos"
    /\ \E resp \in ReposResponses, e \in {NoErr, "fetchAllRepos"} :
          /\ repos' = resp /\ ri' = 1
          /\ pc' = "auditAllRepos" /\ runErr' = e
          /\ hist' = [Fetched(hist, "auditAllRepos")
                         EXCEPT !.reposListed = TRUE,
                                !.reposPending = Len(resp)]
    /\ UNCHANGED <<chain, stage, exitCode, report, loopVar, Users, heap, Orgs,
                   publicRepos, visited, curOrg, teams, ti, accts, ai, served>>
    /\ UNCHANGED <<trepos, tri, tusers, ui, ucell>>
    /\ http' = Returned(http)

\* lines 86-90: fetchAllRepos and its error return
CallAuditAllRepos ==
    /\ pc = "Run" /\ stage <= Len(chain) /\ chain[stage] = "auditAllRepos"
    /\ \/ /\ StageReturns("fetchAllRepos")
          /\ UNCHANGED <<repos, ri>>
          /\ hist' = Fetched(hist, "auditAllRepos")
       \/ \E resp \in ReposResponses :
             /\ repos' = resp /\ ri' = 1
             /\ pc' = "auditAllRepos"
             /\ hist' = [Fetched(hist, "auditAllRepos")
                            EXCEPT !.reposListed = TRUE,
                                   !.reposPending = Len(resp)]
             /\ UNCHANGED <<stage, runErr>>
    /\ UNCHANGED <<chain, exitCode, report, loopVar, Users, heap, Orgs,
                   publicRepos, visited, curOrg, teams, ti, accts, ai, served>>
    /\ UNCHANGED <<trepos, tri, tusers, ui, ucell>>
    /\ http' = Returned(http)

\* a User record as auditAllRepos creates it (lines 106-109)
NewOwner(name) ==
    [Name |-> name, ID |-> "", IsAdmin |-> FALSE,
     ReposNil |-> FALSE, Repos |-> EmptyRepos]

\* the owner's level left as the listing decoded it
OwnerLevelUnset(repo) == Read

\* line 115: repo.Level = Admin
OwnerLevel(repo) == Admin

\* lines 94-125: one iteration of the loop over repos
AuditRepo ==
    /\ pc = "auditAllRepos" /\ ~LoopDone(ri, repos)
    /\ LET repo == repos[ri]
           n == repo.AccountName
           isOrg == repo.AccountType = AccountTypeOrg
           known == n \in DOMAIN Users
           cell == IF known THEN Users[n] ELSE n
           H1 == IF known THEN heap ELSE heap @@ (n :> NewOwner(n))
           \* user.Repos[repo.Name] = repo panics on a nil map
           crash == ~isOrg /\ H1[cell].ReposNil
       IN /\ Orgs' = IF isOrg /\ n \notin DOMAIN Orgs
                     THEN Orgs @@ (n :> [Name |-> n, ID |-> ""]) ELSE Orgs
          /\ Users' = IF isOrg \/ known THEN Users ELSE Users @@ (n :> n)
          /\ heap' = IF isOrg \/ crash THEN heap
                     ELSE [H1 EXCEPT ![cell].Repos[repo.Name] = OwnerLevel(repo)]
          /\ publicRepos' = IF repo.Visibility = VisibilityPublic /\ ~crash
                            THEN Append(publicRepos, repo.Name) ELSE publicRepos
          /\ pc' = IF crash THEN "panic" ELSE pc
          /\ ri' = IF crash THEN ri ELSE ri + 1
          /\ hist' = [hist EXCEPT
                 !.offers = IF isOrg THEN @ ELSE Offered(@, n, repo.Name, Admin),
                 !.appeared = IF isOrg THEN @ ELSE @ \cup {n},
                 !.owned = IF isOrg THEN @ ELSE @ \cup {<<n, repo.Name>>},
                 !.orgRepos = IF isOrg THEN @ \cup {<<n, repo.Name>>} ELSE @,
                 !.public = IF repo.Visibility = VisibilityPublic
                            THEN @ \cup {repo.Name} ELSE @,
                 !.reposPending = IF crash THEN @ ELSE @ - 1]
    /\ UNCHANGED <<chain, stage, runErr, exitCode, report, loopVar, repos,
                   visited, curOrg, teams, ti, accts, ai, served>>
    /\ UNCHANGED <<trepos, tri, tusers, ui, ucell>>
    /\ UNCHANGED http

\* line 130: return nil
AuditAllReposReturns ==
    /\ pc = "auditAllRepos" /\ LoopDone(ri, repos)
    /\ StageReturns(NoErr)
    /\ repos' = <<>> /\ ri' = 1
    /\ UNCHANGED <<chain, exitCode, report, loopVar, Users, heap, Orgs,
                   publicRepos, visited, curOrg, teams, ti, accts, ai, served,
                   hist>>
    /\ UNCHANGED <<trepos, tri, tusers, ui, ucell>>
    /\ UNCHANGED http

----------------------------------------------------------------------------
(* auditor.go: auditOrgs and auditTeam *)

\* line 134-135: the range over a.Orgs starts
CallAuditOrgs ==
    /\ pc = "Run" /\ stage <= Len(chain) /\ chain[stage] = "auditOrgs"
    /\ pc' = "auditOrgs" /\ visited' = {}
    /\ hist' = [hist EXCEPT !.teamsListed = 0]
    /\ UNCHANGED <<chain, stage, runErr, exitCode, report, loopVar, Users,
                   heap, Orgs, publicRepos, repos, ri, curOrg, teams, ti,
                   accts, ai, served>>
    /\ UNCHANGED <<trepos, tri, tusers, ui, ucell>>
    /\ UNCHANGED http

\* lines 135-144: the range yields some org not yet produced (map order is
\* unspecified) and fetchTeamsForOrg is called for it
FetchTeamsForOrg ==
    /\ pc = "auditOrgs"
    /\ \E orgName \in DOMAIN Orgs \ visited :
        /\ visited' = visited \cup {orgName}
        /\ curOrg' = orgName
        /\ \/ /\ orgName \notin DOMAIN served.teams
              /\ StageReturns("fetchTeamsForOrg")
              /\ UNCHANGED <<teams, ti, served>>
              /\ hist' = Fetched(hist, "auditOrgs")
           \/ \E resp \in Answer(served.teams, orgName,
                                  TeamsResponsesUpTo(MaxTeams - hist.teamsListed)) :
                 /\ teams' = resp /\ ti' = 1
                 /\ pc' = "auditTeams"
                 /\ served' = [served EXCEPT !.teams = Keep(@, orgName, resp)]
                 /\ hist' = [Fetched(hist, "auditOrgs")
                                EXCEPT !.teamsListed = @ + Len(resp),
                                       !.teamsPending = @ + Len(resp)]
                 /\ UNCHANGED <<stage, runErr>>
    /\ UNCHANGED <<chain, exitCode, report, loopVar, Users, heap, Orgs,
                   publicRepos, repos, ri, accts, ai>>
    /\ UNCHANGED <<trepos, tri, tusers, ui, ucell>>
    /\ http' = Returned(http)

\* the User decoded from a TeamMember (types.go 96-98): Repos is a nil map
MemberUser(m) ==
    [Name |-> m, ID |-> m, IsAdmin |-> FALSE,
     ReposNil |-> TRUE, Repos |-> EmptyRepos]

\* lines 176-187: one iteration of the loop over users for repository r at
\* level lvl.  st.cur is the heap cell of the range variable u once &u.User
\* has been stored in a.Users ("none" before); with one variable per loop
\* every iteration overwrites that cell, with one variable per iteration it
\* never does.
AuditMember(st, m, r, lvl) ==
    LET cur == IF loopVar = "shared" THEN st.cur ELSE None
        \* u = users[i]
        H1 == IF cur # None THEN [st.H EXCEPT ![cur] = MemberUser(m)] ELSE st.H
        known == m \in DOMAIN st.U
        cell == IF known THEN st.U[m] ELSE IF cur # None THEN cur ELSE m
        \* user = &u.User; user.Repos = map[string]Repo{}
        fresh == [MemberUser(m) EXCEPT !.ReposNil = FALSE]
        H2 == IF known THEN H1
              ELSE IF cell \in DOMAIN H1 THEN [H1 EXCEPT ![cell] = fresh]
              ELSE H1 @@ (cell :> fresh)
        U2 == IF known THEN st.U ELSE st.U @@ (m :> cell)
        \* user.AddRepo(repo.Repo): the store panics on a nil map
        crash == H2[cell].ReposNil
    IN [U |-> U2,
        H |-> IF crash THEN H2
              ELSE [H2 EXCEPT ![cell].Repos = AddRepo(@, r, lvl)],
        cur |-> IF known THEN cur ELSE cell,
        panicked |-> crash,
        off |-> Offered(st.off, m, r, lvl)]

\* lines 147-148 and auditTeam, lines 163-170: the loop over teams calls
\* auditTeam, which fetches the team's repositories, then its members
CallAuditTeam ==
    /\ pc = "auditTeams" /\ ~LoopDone(ti, teams)
    /\ LET key == <<curOrg, teams[ti]>> IN
       \/ /\ key \notin DOMAIN served.teamRepos
          /\ StageReturns("fetchReposForTeam")
          /\ hist' = Fetched(hist, "auditOrgs")
          /\ UNCHANGED <<trepos, tri, tusers, ui, ucell, served>>
       \/ /\ key \notin DOMAIN served.members
          /\ StageReturns("fetchMembersForTeam")
          /\ hist' = Fetched(hist, "auditOrgs")
          /\ UNCHANGED <<trepos, tri, tusers, ui, ucell, served>>
       \/ \E rs \in Answer(served.teamRepos, key, TeamReposResponses),
             us \in Answer(served.members, key, MembersResponses) :
               /\ trepos' = rs /\ tri' = 1
               /\ tusers' = us /\ ui' = 1 /\ ucell' = None
               /\ pc' = "auditTeam"
               /\ served' = [served EXCEPT
                                !.teamRepos = Keep(@, key, rs),
                                !.members = Keep(@, key, us)]
               /\ hist' = [Fetched(hist, "auditOrgs") EXCEPT
                     !.appeared = @ \cup {us[i] : i \in 1..Len(us)}]
               /\ UNCHANGED <<stage, runErr>>
    /\ UNCHANGED <<chain, exitCode, report, loopVar, Users, heap, Orgs,
                   publicRepos, repos, ri, visited, curOrg, teams, ti, accts,
                   ai>>
    /\ http' = Returned(http)

\* lines 176-187: one iteration of the loop over users
AuditTeamMember ==
    /\ pc = "auditTeam" /\ ~LoopDone(tri, trepos) /\ ~LoopDone(ui, tusers)
    /\ LET st == AuditMember([U |-> Users, H |-> heap, cur |-> ucell,
                              panicked |-> FALSE, off |-> hist.offers],
                             tusers[ui], trepos[tri].Name, trepos[tri].Level)
       IN /\ Users' = st.U /\ heap' = st.H /\ ucell' = st.cur
          /\ pc' = IF st.panicked THEN "panic" ELSE pc
          /\ ui' = IF st.panicked THEN ui ELSE ui + 1
          /\ hist' = [hist EXCEPT !.offers = st.off]
    /\ UNCHANGED <<chain, stage, runErr, exitCode, report, loopVar, Orgs,
                   publicRepos, repos, ri, visited, curOrg, teams, ti, accts,
                   ai, served, trepos, tri, tusers>>
    /\ UNCHANGED http

\* lines 172-176: the loop over users is over, next repository; the next
\* execution of the inner for statement declares its own u
NextTeamRepo ==
    /\ pc = "auditTeam" /\ ~LoopDone(tri, trepos) /\ LoopDone(ui, tusers)
    /\ tri' = tri + 1 /\ ui' = 1 /\ ucell' = None
    /\ UNCHANGED <<pc, chain, stage, runErr, exitCode, report, loopVar, Users,
                   heap, Orgs, publicRepos, repos, ri, visited, curOrg, teams,
                   ti, accts, ai, served, hist, trepos, tusers>>
    /\ UNCHANGED http

\* line 189: auditTeam returns nil, next team
AuditTeamReturns ==
    /\ pc = "auditTeam" /\ LoopDone(tri, trepos)
    /\ pc' = "auditTeams" /\ ti' = ti + 1
    /\ trepos' = <<>> /\ tri' = 1 /\ tusers' = <<>> /\ ui' = 1 /\ ucell' = None
    /\ hist' = [hist EXCEPT !.teamsPending = @ - 1]
    /\ UNCHANGED <<chain, stage, runErr, exitCode, report, loopVar, Users,
                   heap, Orgs, publicRepos, repos, ri, visited, curOrg, teams,
                   accts, ai, served>>
    /\ UNCHANGED http

\* line 155-156: the loop over teams is over, back to the range over a.Orgs
TeamsDone ==
    /\ pc = "auditTeams" /\ LoopDone(ti, teams)
    /\ pc' = "auditOrgs"
    /\ curOrg' = None /\ teams' = <<>> /\ ti' = 1
    /\ UNCHANGED <<chain, stage, runErr, exitCode, report, loopVar, Users,
                   heap, Orgs, publicRepos, repos, ri, visited, accts, ai,
                   served, hist>>
    /\ UNCHANGED <<trepos, tri, tusers, ui, ucell>>
    /\ UNCHANGED http

\* line 157: the range over a.Orgs is over, return nil
AuditOrgsReturns ==
    /\ pc = "auditOrgs" /\ DOMAIN Orgs \ visited = {}
    /\ StageReturns(NoErr)
    /\ hist' = [hist EXCEPT
                  !.passes = @ + 1,
                  !.snap = IF hist.passes = 0 THEN <<Users, heap>> ELSE @]
    /\ UNCHANGED <<chain, exitCode, report, loopVar, Users, heap, Orgs,
                   publicRepos, repos, ri, visited, curOrg, teams, ti, accts,
                   ai, served>>
    /\ UNCHANGED <<trepos, tri, tusers, ui, ucell>>
    /\ UNCHANGED http

----------------------------------------------------------------------------
(* auditor.go: auditRemainingAccounts *)

\* lines 194-198: fetchAccounts and its error return
CallAuditRemainingAccounts ==
    /\ pc = "Run" /\ stage <= Len(chain)
    /\ chain[stage] = "auditRemainingAccounts"
    /\ \/ /\ StageReturns("fetchAccounts")
          /\ UNCHANGED <<accts, ai>>
          /\ hist' = Fetched(hist, "auditRemainingAccounts")
       \/ \E resp \in AccountsResponses :
             /\ accts' = resp /\ ai' = 1
             /\ pc' = "auditRemainingAccounts"
             /\ hist' = Fetched(hist, "auditRemainingAccounts")
             /\ UNCHANGED <<stage, runErr>>
    /\ UNCHANGED <<chain, exitCode, report, loopVar, Users, heap, Orgs,
                   publicRepos, repos, ri, visited, curOrg, teams, ti, served>>
    /\ UNCHANGED <<trepos, tri, tusers, ui, ucell>>
    /\ http' = Returned(http)

\* lines 212-216: the User created for a listed account not yet known; its
\* Repos map is left nil
ListedUser(acc) ==
    [Name |-> acc.Name, ID |-> acc.ID, IsAdmin |-> acc.IsAdmin,
     ReposNil |-> TRUE, Repos |-> EmptyRepos]

\* the known user's record replaced by a new one
UpdateListedReplaces(rec, acc) == ListedUser(acc)

\* lines 218-219: the known user's record gets the listed flag and id
UpdateListed(rec, acc) ==
    [rec EXCEPT !.IsAdmin = acc.IsAdmin, !.ID = acc.ID]

\* lines 201-222: one iteration of the loop over accts
AuditAccount ==
    /\ pc = "auditRemainingAccounts" /\ ~LoopDone(ai, accts)
    /\ LET acc == accts[ai]
           n == acc.Name
       IN IF acc.IsOrg
          THEN /\ Orgs' = IF n \in DOMAIN Orgs THEN Orgs
                          ELSE Orgs @@ (n :> [Name |-> n, ID |-> acc.ID])
               /\ UNCHANGED <<Users, heap, hist>>
          ELSE /\ Users' = IF n \in DOMAIN Users THEN Users
                           ELSE Users @@ (n :> n)
               /\ heap' = IF n \in DOMAIN Users
                          THEN [heap EXCEPT ![Users[n]] = UpdateListed(@, acc)]
                          ELSE heap @@ (n :> ListedUser(acc))
               /\ hist' = [hist EXCEPT
                             !.appeared = @ \cup {n},
                             !.started = @ \cup {"auditRemainingAccounts"}]
               /\ Orgs' = Orgs
    /\ ai' = ai + 1
    /\ UNCHANGED <<pc, chain, stage, runErr, exitCode, report, loopVar,
                   publicRepos, repos, ri, visited, curOrg, teams, ti, accts,
                   served>>
    /\ UNCHANGED <<trepos, tri, tusers, ui, ucell>>
    /\ UNCHANGED http

\* line 223: return nil
AuditRemainingAccountsReturns ==
    /\ pc = "auditRemainingAccounts" /\ LoopDone(ai, accts)
    /\ StageReturns(NoErr)
    /\ accts' = <<>> /\ ai' = 1
    /\ UNCHANGED <<chain, exitCode, report, loopVar, Users, heap, Orgs,
                   publicRepos, repos, ri, visited, curOrg, teams, ti, served,
                   hist>>
    /\ UNCHANGED <<trepos, tri, tusers, ui, ucell>>
    /\ UNCHANGED http

----------------------------------------------------------------------------
(* main *)

\* main, lines 34-41: exit 1 on an error, print the report otherwise
MainExits ==
    /\ pc = "main"
    /\ pc' = "exit"
    /\ exitCode' = IF runErr # NoErr THEN 1 ELSE 0
    /\ report' = (runErr = NoErr)
    /\ UNCHANGED <<chain, stage, runErr, loopVar, Users, heap, Orgs,
                   publicRepos, repos, ri, visited, curOrg, teams, ti, accts,
                   ai, served, hist>>
    /\ UNCHANGED <<trepos, tri, tusers, ui, ucell>>
    /\ UNCHANGED http

----------------------------------------------------------------------------

\* The state NewAuditor leaves, with Run about to walk chain c.  loopVar is
\* the meaning the build gives to `for _, u := range users`: one variable
\* for the whole loop ("shared", Go language versions before 1.22, which is
\* what a repository without a go.mod is compiled as) or one variable per
\* iteration ("perIteration", language version 1.22 and later).
InitWith(c) ==
    /\ pc = "Run" /\ chain = c /\ stage = 1
    /\ runErr = NoErr /\ exitCode = -1 /\ report = FALSE
    /\ loopVar \in {"shared", "perIteration"}
    /\ Users = <<>> /\ heap = <<>> /\ Orgs = <<>> /\ publicRepos = <<>>
    /\ repos = <<>> /\ ri = 1
    /\ visited = {} /\ curOrg = None /\ teams = <<>> /\ ti = 1
    /\ accts = <<>> /\ ai = 1
    /\ trepos = <<>> /\ tri = 1 /\ tusers = <<>> /\ ui = 1 /\ ucell = None
    /\ http = Idle
    /\ served = [teams |-> <<>>, teamRepos |-> <<>>, members |-> <<>>]
    /\ hist = NoHistory

\* Run's chain, lines 63-74
Chain == <<"auditAllRepos", "auditOrgs", "auditRemainingAccounts">>

Init == InitWith(Chain)

Next ==
    \/ CallAuditAllRepos
    \/ AuditRepo
    \/ AuditAllReposReturns
    \/ CallAuditOrgs
    \/ FetchTeamsForOrg
    \/ CallAuditTeam
    \/ AuditTeamMember
    \/ NextTeamRepo
    \/ AuditTeamReturns
    \/ TeamsDone
    \/ AuditOrgsReturns
    \/ CallAuditRemainingAccounts
    \/ AuditAccount
    \/ AuditRemainingAccountsReturns
    \/ RunReturnsNil
    \/ MainExits

Spec == Init /\ [][Next]_vars

\* the same program with auditOrgs called twice in a row on the same data
ChainTwice == <<"auditAllRepos", "auditOrgs", "auditOrgs",
                "auditRemainingAccounts">>

InitTwice == InitWith(ChainTwice)

SpecTwice == InitTwice /\ [][Next]_vars

TypeOK ==
    /\ pc \in {"Run", "auditAllRepos", "auditOrgs", "auditTeams", "auditTeam",
               "auditRemainingAccounts", "main", "exit", "panic"}
    /\ DOMAIN Users \subseteq UserNames
    /\ \A n \in DOMAIN Users : Users[n] \in DOMAIN heap
    /\ DOMAIN Orgs \subseteq OrgNames
    /\ http.at \in {"idle", "get", "loop", "sleep", "doReturn", "decode",
                    "failed", "fetched", "returned", "panic"}
    /\ http.at = "idle" \/ http.fn \in Fetchers

----------------------------------------------------------------------------
(* One fetch followed request by request: from the call of the fetcher to
   the step of the stage function that takes its result, and to the exit of
   the process when the result is an error. *)

prog == <<pc, chain, stage, runErr, exitCode, report, loopVar, Users, heap,
          Orgs, publicRepos, repos, ri, visited, curOrg, teams, ti, accts,
          ai, served, hist, trepos, tri, tusers, ui, ucell>>

\* part_001 lines 14-22 and 72-80: get builds the request, do sets the
\* header and declares resp
Get ==
    /\ http.at = "get"
    /\ \/ http' = [http EXCEPT !.at = "failed", !.err = "request"]
       \/ http' = [http EXCEPT !.at = "loop", !.i = 0, !.resp = NoResponse,
                               !.err = NoErr]
    /\ UNCHANGED prog

\* util.go lines 8-12: one invocation of f; retry returns nil when f did
RetryCallsF ==
    /\ http.at = "loop" /\ RetryLoop(http.i)
    /\ \E o \in {NoResponse} \cup Statuses :
          LET h == F(http, o) IN
          http' = [h EXCEPT !.at = IF h.err = NoErr THEN "doReturn"
                                   ELSE "sleep"]
    /\ UNCHANGED prog

\* util.go lines 15 and 8: the pause, then i++
RetrySleeps ==
    /\ http.at = "sleep"
    /\ http' = [http EXCEPT !.at = "loop", !.i = @ + 1]
    /\ UNCHANGED prog

\* util.go line 19: the loop is over, the last error is returned
RetryGivesUp ==
    /\ http.at = "loop" /\ ~RetryLoop(http.i)
    /\ http' = [http EXCEPT !.at = "doReturn"]
    /\ UNCHANGED prog

\* part_001 line 102, lines 23-27 and the fetcher's check of get's error
\* (lines 31-34): an error makes the fetcher fail, a response is decoded
DoReturns ==
    /\ http.at = "doReturn"
    /\ http.err # NoErr \/ RespReturned(http) # NoResponse
    /\ http' = [http EXCEPT !.at = IF http.err # NoErr THEN "failed"
                                   ELSE "decode"]
    /\ UNCHANGED prog

\* part_001 line 35, `defer resp.Body.Close()`, with a nil resp and a nil
\* error: nil pointer dereference
NilResponse ==
    /\ http.at = "doReturn"
    /\ http.err = NoErr /\ RespReturned(http) = NoResponse
    /\ pc' = "panic"
    /\ http' = [http EXCEPT !.at = "panic"]
    /\ UNCHANGED <<chain, stage, runErr, exitCode, report, loopVar, Users,
                   heap, Orgs, publicRepos, repos, ri, visited, curOrg,
                   teams, ti, accts, ai, served, hist, trepos, tri, tusers,
                   ui, ucell>>

\* part_001 lines 37-41: the body decodes or it does not
Decode ==
    /\ http.at = "decode"
    /\ \E ok \in BOOLEAN :
          http' = IF ok THEN [http EXCEPT !.at = "fetched"]
                  ELSE DecodeFails(http)
    /\ UNCHANGED prog

\* the errors the calling stage function may return once the fetch is over
Surfaces(h) ==
    IF h.at = "failed" THEN {h.fn}
    ELSE IF h.fn = "fetchReposForTeam" THEN {NoErr, "fetchMembersForTeam"}
    ELSE {NoErr}

\* the stage function takes the result: auditor.go lines 87-90, 137-140,
\* 163-170, 195-198
FetchReturns ==
    /\ http.at \in {"failed", "fetched"}
    /\ \/ http.fn = "fetchAllRepos" /\ CallAuditAllRepos
       \/ http.fn = "fetchTeamsForOrg" /\ FetchTeamsForOrg
       \/ http.fn \in {"fetchReposForTeam", "fetchMembersForTeam"}
             /\ CallAuditTeam
       \/ http.fn = "fetchAccounts" /\ CallAuditRemainingAccounts
    /\ runErr' \in Surfaces(http)

\* a listing with one repository of organization acme has been audited
AfterListing ==
    [NoHistory EXCEPT !.started = {"auditAllRepos"}, !.reposListed = TRUE,
                      !.orgRepos = {<<"acme", "acme/infra">>}]

AcmeOnly == [o \in {"acme"} |-> [Name |-> "acme", ID |-> ""]]

\* the state of the run at the call of fetcher fn
CallPoint(fn) ==
    CASE fn = "fetchAllRepos" ->
           /\ pc = "Run" /\ stage = 1 /\ Orgs = <<>>
           /\ visited = {} /\ curOrg = None /\ teams = <<>>
           /\ hist = NoHistory
      [] fn = "fetchTeamsForOrg" ->
           /\ pc = "auditOrgs" /\ stage = 2 /\ Orgs = AcmeOnly
           /\ visited = {} /\ curOrg = None /\ teams = <<>>
           /\ hist = AfterListing
      [] fn \in {"fetchReposForTeam", "fetchMembersForTeam"} ->
           /\ pc = "auditTeams" /\ stage = 2 /\ Orgs = AcmeOnly
           /\ visited = {"acme"} /\ curOrg = "acme"
           /\ teams = <<"platform">>
           /\ hist = [AfterListing EXCEPT
                         !.started = @ \cup {"auditOrgs"},
                         !.teamsListed = 1, !.teamsPending = 1]
      [] fn = "fetchAccounts" ->
           /\ pc = "Run" /\ stage = 3 /\ Orgs = AcmeOnly
           /\ visited = {"acme"} /\ curOrg = None /\ teams = <<>>
           /\ hist = [AfterListing EXCEPT
                         !.started = @ \cup {"auditOrgs"},
                         !.passes = 1, !.snap = <<<<>>, <<>>>>]

InitFetch ==
    /\ chain = Chain /\ runErr = NoErr /\ exitCode = -1 /\ report = FALSE
    /\ loopVar \in {"shared", "perIteration"}
    /\ Users = <<>> /\ heap = <<>> /\ publicRepos = <<>>
    /\ repos = <<>> /\ ri = 1 /\ ti = 1 /\ accts = <<>> /\ ai = 1
    /\ trepos = <<>> /\ tri = 1 /\ tusers = <<>> /\ ui = 1 /\ ucell = None
    /\ served = [teams |-> <<>>, teamRepos |-> <<>>, members |-> <<>>]
    /\ \E fn \in Fetchers, o \in Orders :
          /\ http = [Idle EXCEPT !.at = "get", !.fn = fn, !.order = o]
          /\ CallPoint(fn)

NextFetch ==
    \/ Get
    \/ RetryCallsF
    \/ RetrySleeps
    \/ RetryGivesUp
    \/ DoReturns
    \/ NilResponse
    \/ Decode
    \/ FetchReturns
    \/ MainExits

SpecFetch == InitFetch /\ [][NextFetch]_vars

----------------------------------------------------------------------------
(* Properties *)

\* Run has returned nil
RunCompleted == pc \in {"main", "exit"} /\ runErr = NoErr

MaxOf(S) == CHOOSE x \in S : \A y \in S : y <= x

\* the level the merge rule assigns to a set of offered levels
Merged(S) == IF S = {} THEN NoEntry ELSE MaxOf(S)

\* C1 -- merge monotonicity: whenever grants have been offered to account n
\* for repository r (ownership in stage 1, team grants through AddRepo in
\* stage 2), the level stored for (n, r) is the maximum of the levels offered.
C1_MergeMonotonicity ==
    pc # "panic" =>
        \A n \in UserNames, r \in RepoNames :
            hist.offers[n][r] # {} => Level(n, r) = MaxOf(hist.offers[n][r])

\* C2 -- no downgrade: no step of a run decreases the level stored for any
\* (account, repository) pair.
C2_NoDowngrade ==
    [][\A n \in UserNames, r \in RepoNames : Level(n, r)' >= Level(n, r)]_vars

\* C3 -- ownership supremacy: when Run has completed, every user that owns a
\* repository holds Admin on it, whatever lower team grants were folded in.
C3_OwnershipSupremacy ==
    RunCompleted => \A o \in hist.owned : Level(o[1], o[2]) = Admin

\* an owner was offered a lower team grant on its own repository and Run
\* completed
C3_Witness ==
    /\ RunCompleted
    /\ \E o \in hist.owned :
          /\ hist.offers[o[1]][o[2]] \cap {Read, Write} # {}
          /\ Level(o[1], o[2]) = Admin

\* C4 -- order independence of the team walk: the final permission mapping
\* is determined by the grants alone, whatever the order in which orgs,
\* teams, team repositories and members were visited; a user granted two
\* different levels on one repository ends with the higher one.
C4_OrderIndependence ==
    RunCompleted =>
        \A n \in hist.appeared, r \in RepoNames :
            Level(n, r) = Merged(hist.offers[n][r])

\* C5 -- idempotence of stage 2: a second auditOrgs over the same data
\* completes and leaves the Users registry and every permission mapping as
\* the first one left them.
C5_Stage2Idempotent ==
    /\ pc = "panic" => hist.passes # 1
    /\ hist.passes = 2 /\ pc = "Run" /\ chain[stage - 1] = "auditOrgs"
          => <<Users, heap>> = hist.snap

\* C6 -- no account loss: after a successful Run every user name that
\* appeared as a repository owner, as a team member or in the account
\* listing is a key of the Users registry.
C6_NoAccountLoss ==
    RunCompleted => hist.appeared \subseteq DOMAIN Users

\* C7 -- public broadcast: when the report is emitted every account of the
\* registry holds at least Read on every public repository.
C7_PublicBroadcast ==
    report =>
        \A n \in DOMAIN Users, r \in hist.public : Level(n, r) >= Read

\* C8 -- organization-admin grant: after Run an administrator of
\* organization o holds Admin on every repository o owns.
C8_OrgAdminGrant ==
    RunCompleted =>
        \A a \in OrgAdmins, g \in hist.orgRepos :
            a[1] = g[1] => Level(a[2], g[2]) = Admin

\* the stage function whose fetch produced error e
StageOf(e) ==
    CASE e = "fetchAllRepos" -> "auditAllRepos"
      [] e = "fetchAccounts" -> "auditRemainingAccounts"
      [] OTHER               -> "auditOrgs"

\* C9 -- fail-fast, all-or-nothing: once a fetch has surfaced an error Run
\* has returned it, the failing stage is the last one started, no fetch
\* follows, the process exits with status 1 and prints no report; a report
\* is printed only after every stage of the chain returned nil.
C9_FailFast ==
    /\ runErr # NoErr =>
          /\ pc \in {"main", "exit"}
          /\ stage <= Len(chain) /\ chain[stage] = StageOf(runErr)
          /\ hist.started \subseteq {chain[i] : i \in 1..stage}
          /\ ~hist.lateFetch
          /\ ~report
          /\ pc = "exit" => exitCode = 1
    /\ report => runErr = NoErr /\ stage > Len(chain) /\ exitCode = 0

\* a fetch of stage 2 failed and the process has exited
C9_Witness ==
    /\ pc = "exit" /\ runErr = "fetchMembersForTeam"
    /\ exitCode = 1 /\ ~report
    /\ "auditRemainingAccounts" \notin hist.started

\* C10 -- strict stage ordering: stage 2 fetches or mutates only after
\* stage 1 processed every listed repository; stage 3 fetches or mutates
\* only after stage 2 visited every organization stage 1 discovered and
\* audited every team listed for them.
C10_StageOrdering ==
    /\ "auditOrgs" \in hist.started =>
          hist.reposListed /\ hist.reposPending = 0
    /\ "auditRemainingAccounts" \in hist.started =>
          /\ hist.reposListed /\ hist.reposPending = 0
          /\ {g[1] : g \in hist.orgRepos} \subseteq visited
          /\ hist.teamsPending = 0

\* stage 3 has started after stage 2 audited teams of a discovered org
C10_Witness ==
    /\ "auditRemainingAccounts" \in hist.started
    /\ hist.teamsListed > 0
    /\ hist.orgRepos # {}

\* C11 -- stage 1 result: when auditAllRepos has returned, each user's
\* mapping holds exactly the repositories that user owns, each at Admin;
\* the users of the registry are the owners and the organizations of the
\* registry are those owning a listed repository.
C11_Stage1Result ==
    pc = "Run" /\ stage = 2 =>
        /\ \A n \in UserNames, r \in RepoNames :
              Level(n, r) = IF <<n, r>> \in hist.owned THEN Admin ELSE NoEntry
        /\ DOMAIN Users = {o[1] : o \in hist.owned}
        /\ DOMAIN Orgs = {g[1] : g \in hist.orgRepos}

\* stage 1 has returned after a user-owned and an org-owned repository
C11_Witness ==
    /\ pc = "Run" /\ stage = 2
    /\ hist.owned # {} /\ hist.orgRepos # {}

\* C12 -- stage 2 grant: once auditOrgs has returned, every member that a
\* team grant (repository, level) was folded in for has a record whose level
\* on that repository is at least the team's level.
C12_Stage2Grant ==
    hist.passes >= 1 =>
        \A n \in UserNames, r \in RepoNames :
            <<n, r>> \notin hist.owned =>
                \A l \in hist.offers[n][r] :
                    n \in DOMAIN Users /\ Level(n, r) >= l

\* C13 -- stage 3 frame: a step of auditRemainingAccounts leaves the
\* permission mapping of every record as it was; a known user only gets the
\* listed admin flag and id; a new user gets a record without permissions
\* and the listed admin flag.
C13_Stage3Frame ==
    [][pc = "auditRemainingAccounts" =>
        /\ \A c \in DOMAIN heap :
              /\ c \in DOMAIN heap'
              /\ heap'[c].Repos = heap[c].Repos
              /\ heap'[c].ReposNil = heap[c].ReposNil
              /\ heap'[c].Name = heap[c].Name
        /\ \A n \in UserNames, r \in RepoNames : Level(n, r)' = Level(n, r)
        /\ ai' = ai + 1 /\ ~accts[ai].IsOrg =>
              LET acc == accts[ai] IN
              /\ acc.Name \in DOMAIN Users'
              /\ heap'[Users'[acc.Name]].IsAdmin = acc.IsAdmin
              /\ heap'[Users'[acc.Name]].ID = acc.ID
              /\ \A m \in DOMAIN Users : Users'[m] = Users[m]
              /\ DOMAIN Users' = DOMAIN Users \cup {acc.Name}]_vars

\* stage 3 has just set the admin flag of a user that holds permissions
C13_Witness ==
    /\ pc = "auditRemainingAccounts" /\ ai > 1
    /\ LET acc == accts[ai - 1] IN
          /\ ~acc.IsOrg /\ acc.IsAdmin
          /\ heap[Users[acc.Name]].IsAdmin
          /\ \E r \in RepoNames : Level(acc.Name, r) # NoEntry

\* C14 -- registry persistence: no step removes a name from the Users or the
\* Orgs registry, and every permission entry an account holds before a step
\* is still present after it.
C14_RegistryPersistence ==
    [][/\ DOMAIN Users \subseteq DOMAIN Users'
       /\ DOMAIN Orgs \subseteq DOMAIN Orgs'
       /\ \A n \in UserNames, r \in RepoNames :
             Level(n, r) # NoEntry => Level(n, r)' # NoEntry]_vars

\* f's verdict on outcome o: TRUE when the closure returns an error
FFailed(o) == F(Idle, o).err # NoErr

\* retry is still in its loop
InRetry == http.at \in {"loop", "sleep"}

\* C15 -- bounded retry: retry invokes f at most 3 times, never again after
\* an invocation that succeeded, returns nil right after the first success,
\* and returns an error, the last one f gave, only after 3 failed
\* invocations.
C15_BoundedRetry ==
    LET n == Len(http.outcomes) IN
    /\ n <= RetryAttempts
    /\ \A k \in 1..(n - 1) : FFailed(http.outcomes[k])
    /\ InRetry => \A k \in 1..n : FFailed(http.outcomes[k])
    /\ http.at = "doReturn" =>
          /\ n >= 1
          /\ http.err = F(Idle, http.outcomes[n]).err
          /\ http.err # NoErr => n = RetryAttempts

\* retry has returned an error after its third failed invocation of f
C15_Witness ==
    /\ http.at = "doReturn" /\ http.err # NoErr
    /\ Len(http.outcomes) = RetryAttempts

\* the request got no response, or one with a status outside 200..299
Rejected(o) == o = NoResponse \/ o \notin StatusOKMin..StatusOKMax

\* C16 -- uniform retry of bad statuses: an attempt answered with a status
\* outside 200..299 is followed by another attempt whenever it was not the
\* third, exactly as an attempt that got no response, and a fetch fails for
\* a bad status or a transport error only after 3 attempts.
C16_BadStatusRetried ==
    LET n == Len(http.outcomes) IN
    /\ \A k \in 1..n :
          Rejected(http.outcomes[k]) /\ k < RetryAttempts /\ ~InRetry => n > k
    /\ http.at \in {"failed", "returned"}
          /\ http.err \in {"status", "transport"} => n = RetryAttempts

\* a fetch has failed after three attempts answered 404, 500 and 404
C16_Witness ==
    /\ http.at = "returned" /\ http.err = "status"
    /\ http.outcomes = <<404, 500, 404>>
    /\ runErr = http.fn

\* C17 -- decode errors are not retried: once the body of an accepted
\* response has failed to decode, the accepted response is the last request
\* the fetch made, the fetcher returns the error, and when the stage
\* function has taken it Run has returned it and the process exits with
\* status 1 and no report.
C17_DecodeNotRetried ==
    http.err = "decode" =>
        LET n == Len(http.outcomes) IN
        /\ http.at \in {"failed", "returned"}
        /\ n >= 1 /\ ~Rejected(http.outcomes[n])
        /\ \A k \in 1..(n - 1) : Rejected(http.outcomes[k])
        /\ http.at = "returned" =>
              /\ runErr = http.fn /\ pc \in {"main", "exit"}
              /\ pc = "exit" => exitCode = 1 /\ ~report

\* the member listing of a team did not decode and the process has exited
C17_Witness ==
    /\ http.fn = "fetchMembersForTeam" /\ http.err = "decode"
    /\ pc = "exit" /\ exitCode = 1
    /\ Len(http.outcomes) = 1

\* C18 -- no partial seed: when the repository listing fetch has failed no
\* Account record, no Organization record and no public repository exists.
C18_NoPartialSeed ==
    runErr = "fetchAllRepos" =>
        /\ Users = <<>> /\ heap = <<>> /\ Orgs = <<>>
        /\ publicRepos = <<>>

\* the repository listing fetch failed and the process has exited
C18_Witness ==
    /\ pc = "exit" /\ runErr = "fetchAllRepos"
    /\ hist.started = {"auditAllRepos"}

\* C19 -- distinct records: two names of the Users registry never refer to
\* the same record, and the record stored under name n has Name = n.
C19_DistinctRecords ==
    \A n \in DOMAIN Users :
        /\ heap[Users[n]].Name = n
        /\ \A m \in DOMAIN Users : m # n => Users[m] # Users[n]

\* C20 -- no over-reported access: after Run a user's mapping holds
\* repository r at level l only if l was granted to that user for r, by
\* ownership or by a team the user is a member of.
C20_NoOverReport ==
    RunCompleted =>
        \A n \in DOMAIN Users, r \in RepoNames :
            Level(n, r) # NoEntry => Level(n, r) \in hist.offers[n][r]

====
